---- MODULE Spec2Model ----
(***************************************************************************)
(* A model of the LTSV tokenizer of src/src/lib.rs: the Data iterator      *)
(* (lines), the Record iterator (tab-separated fields with a running byte  *)
(* cursor), PairToken validation, and the three callers that drive them:   *)
(* a lazy consumer of tokenize, validate and parse.                        *)
(*                                                                         *)
(* Strings are sequences of byte values.                                   *)
(***************************************************************************)
EXTENDS Integers, Sequences, FiniteSets, TLC

\* ------------------------------------------------------------------ bounds

\* Longest input buffer, in bytes.
MaxLen == 5

\* ------------------------------------------------------- program constants

NEWLINE == 10
TAB == 9
SPLITTER == 58
\* The optional carriage return of a line terminator.
CR == 13

\* The bytes inputs are drawn from: NUL, TAB, LF, CR, '!', ':' and 'a'.
\* '!' is a field byte but no label byte, 'a' is both, NUL and CR are neither.
Bytes == {0, TAB, NEWLINE, CR, 33, SPLITTER, 97}

RECURSIVE SeqsUpTo(_, _)
SeqsUpTo(S, n) ==
    IF n = 0 THEN {<<>>}
    ELSE LET shorter == SeqsUpTo(S, n - 1)
         IN  shorter \cup {Append(s, b) : s \in {t \in shorter : Len(t) = n - 1}, b \in S}

Inputs == SeqsUpTo(Bytes, MaxLen)

\* --------------------------------------------------------- string helpers

\* str::find of a byte: the index of its first occurrence, 0 when absent.
IndexOf(s, b) ==
    IF \E i \in 1..Len(s) : s[i] = b
    THEN CHOOSE i \in 1..Len(s) : s[i] = b /\ \A j \in 1..(i - 1) : s[j] # b
    ELSE 0

Tail_from(s, i) == SubSeq(s, i, Len(s))

\* ------------------------------------------------------------- classifiers

is_label_byte(b) ==
    \/ b \in 48..57
    \/ b \in 65..90
    \/ b \in 97..122
    \/ b = 95
    \/ b = 46
    \/ b = 45

is_field_byte(b) ==
    \/ b \in 1..8
    \/ b = 11
    \/ b = 12
    \/ b \in 14..255

\* ------------------------------------------------------------------ errors

put_span(e, start, end) == [e EXCEPT !.start = start, !.end = end]
put_line(e, line) == [e EXCEPT !.line = line]

invalid_pair(txt) == [txt |-> txt, kind |-> "InvalidPair", line |-> 0, start |-> 0, end |-> 0]
invalid_label(txt) == [txt |-> txt, kind |-> "InvalidLabel", line |-> 0, start |-> 0, end |-> 0]
invalid_field(txt) == [txt |-> txt, kind |-> "InvalidField", line |-> 0, start |-> 0, end |-> 0]

Ok(v) == [ok |-> TRUE, val |-> v]
Err(e) == [ok |-> FALSE, err |-> e]
None == [some |-> FALSE]

\* --------------------------------------------------------------- PairToken

validate_label(token) ==
    IF \A i \in 1..Len(token.label) : is_label_byte(token.label[i])
    THEN Ok(<<>>)
    ELSE Err(put_span(put_line(invalid_label(token.label), token.line),
                      token.start, token.start + Len(token.label)))

\* validate_field with the separator left out of the span start.
validate_field_NoSeparator(token) ==
    IF \A i \in 1..Len(token.field) : is_field_byte(token.field[i])
    THEN Ok(<<>>)
    ELSE Err(put_span(put_line(invalid_field(token.field), token.line),
                      token.start + Len(token.label), token.end))

validate_field(token) ==
    IF \A i \in 1..Len(token.field) : is_field_byte(token.field[i])
    THEN Ok(<<>>)
    ELSE Err(put_span(put_line(invalid_field(token.field), token.line),
                      token.start + Len(token.label) + 1, token.end))

\* validate_label()?; validate_field()?; Ok(())
validate_token(token) ==
    IF ~validate_label(token).ok THEN validate_label(token)
    ELSE IF ~validate_field(token).ok THEN validate_field(token)
    ELSE Ok(<<>>)

\* Pair::from(PairToken)
pair_of(token) == [label |-> token.label, field |-> token.field]

\* impl Display for Pair: "{}:{}"
fmt(pair) == pair.label \o <<SPLITTER>> \o pair.field

\* split_once taken at the last separator, as str::rsplit_once does.
split_once_Last(s) ==
    IF \A i \in 1..Len(s) : s[i] # SPLITTER THEN None
    ELSE LET i == CHOOSE c \in 1..Len(s) : s[c] = SPLITTER /\ \A d \in (c + 1)..Len(s) : s[d] # SPLITTER
         IN  [some |-> TRUE, label |-> SubSeq(s, 1, i - 1), field |-> SubSeq(s, i + 1, Len(s))]

\* str::split_once(SPLITTER): the parts around the first separator.
split_once(s) ==
    LET i == IndexOf(s, SPLITTER)
    IN  IF i = 0 THEN None
        ELSE [some |-> TRUE, label |-> SubSeq(s, 1, i - 1), field |-> Tail_from(s, i + 1)]

\* -------------------------------------------------------------- iterators

\* core::str::Lines::next over the unread rest of the buffer: the text up to
\* the next NEWLINE without that NEWLINE and without one CR before it; an
\* unterminated rest is the last line; nothing once the rest is empty.
\* A CR that no NEWLINE follows stays in the line (str::lines of current Rust).
lines_next(rest) ==
    IF rest = <<>> THEN None
    ELSE LET i == IndexOf(rest, NEWLINE)
         IN  IF i = 0 THEN [some |-> TRUE, line |-> rest, rest |-> <<>>]
             ELSE LET l == SubSeq(rest, 1, i - 1)
                  IN  [some |-> TRUE,
                       line |-> IF l # <<>> /\ l[Len(l)] = CR
                                THEN SubSeq(l, 1, Len(l) - 1) ELSE l,
                       rest |-> Tail_from(rest, i + 1)]

\* core::str::Split::next for line.split(TAB): a final (possibly empty) piece
\* is yielded once, then the iterator is finished.
split_next(fields) ==
    IF fields.finished THEN None
    ELSE LET i == IndexOf(fields.rest, TAB)
         IN  IF i = 0
             THEN [some |-> TRUE, item |-> fields.rest,
                   fields |-> [rest |-> <<>>, finished |-> TRUE]]
             ELSE [some |-> TRUE, item |-> SubSeq(fields.rest, 1, i - 1),
                   fields |-> [rest |-> Tail_from(fields.rest, i + 1), finished |-> FALSE]]

\* tokenize(input)
tokenize(in) == [lines |-> in, current_line |-> 0]

\* Data::next without `self.current_line += 1`.
Data_next_NoIncrement(d) ==
    LET l == lines_next(d.lines)
    IN  IF ~l.some THEN None
        ELSE [some |-> TRUE,
              record |-> [fields |-> [rest |-> l.line, finished |-> FALSE],
                          current_line |-> d.current_line,
                          current_pointer |-> 0],
              data |-> [lines |-> l.rest, current_line |-> d.current_line]]

\* Data::next
Data_next(d) ==
    LET l == lines_next(d.lines)
    IN  IF ~l.some THEN None
        ELSE [some |-> TRUE,
              record |-> [fields |-> [rest |-> l.line, finished |-> FALSE],
                          current_line |-> d.current_line,
                          current_pointer |-> 0],
              data |-> [lines |-> l.rest, current_line |-> d.current_line + 1]]

\* Record::next with the cursor left on the tab: `current_pointer = end`.
Record_next_NoTabSkip(r) ==
    LET f == split_next(r.fields)
    IN  IF ~f.some THEN None
        ELSE LET pair == f.item
                 end == r.current_pointer + Len(pair)
                 parts == split_once(pair)
                 rest == [r EXCEPT !.fields = f.fields]
             IN  IF parts.some
                 THEN LET token == [label |-> parts.label, field |-> parts.field,
                                    line |-> r.current_line,
                                    start |-> r.current_pointer, end |-> end]
                      IN  IF ~validate_token(token).ok
                          THEN [some |-> TRUE, item |-> validate_token(token), record |-> rest]
                          ELSE [some |-> TRUE, item |-> Ok(token),
                                record |-> [rest EXCEPT !.current_pointer = end]]
                 ELSE [some |-> TRUE,
                       item |-> Err(put_span(put_line(invalid_pair(pair), r.current_line),
                                             r.current_pointer, end)),
                       record |-> rest]

\* Record::next as a fused iterator: nothing more is yielded after an Err.
Record_next_StopOnErr(r) ==
    LET f == split_next(r.fields)
    IN  IF ~f.some THEN None
        ELSE LET pair == f.item
                 end == r.current_pointer + Len(pair)
                 parts == split_once(pair)
                 stopped == [r EXCEPT !.fields = [rest |-> <<>>, finished |-> TRUE]]
             IN  IF parts.some
                 THEN LET token == [label |-> parts.label, field |-> parts.field,
                                    line |-> r.current_line,
                                    start |-> r.current_pointer, end |-> end]
                      IN  IF ~validate_token(token).ok
                          THEN [some |-> TRUE, item |-> validate_token(token), record |-> stopped]
                          ELSE [some |-> TRUE, item |-> Ok(token),
                                record |-> [r EXCEPT !.fields = f.fields,
                                                     !.current_pointer = end + 1]]
                 ELSE [some |-> TRUE,
                       item |-> Err(put_span(put_line(invalid_pair(pair), r.current_line),
                                             r.current_pointer, end)),
                       record |-> stopped]

\* Record::next: the cursor moves past the field only on the Ok path.
Record_next(r) ==
    LET f == split_next(r.fields)
    IN  IF ~f.some THEN None
        ELSE LET pair == f.item
                 end == r.current_pointer + Len(pair)
                 parts == split_once(pair)
                 rest == [r EXCEPT !.fields = f.fields]
             IN  IF parts.some
                 THEN LET token == [label |-> parts.label, field |-> parts.field,
                                    line |-> r.current_line,
                                    start |-> r.current_pointer, end |-> end]
                      IN  IF ~validate_token(token).ok
                          THEN [some |-> TRUE, item |-> validate_token(token), record |-> rest]
                          ELSE [some |-> TRUE, item |-> Ok(token),
                                record |-> [rest EXCEPT !.current_pointer = end + 1]]
                 ELSE [some |-> TRUE,
                       item |-> Err(put_span(put_line(invalid_pair(pair), r.current_line),
                                             r.current_pointer, end)),
                       record |-> rest]

\* ------------------------------------------------------------------- state

VARIABLES
    input,      \* the buffer handed to the caller
    caller,     \* "tokenize" (a lazy consumer), "validate" or "parse"
    pc,         \* "lines": at the loop over Data; "fields": inside a Record; "done"
    data,       \* the Data iterator
    record,     \* the Record being iterated
    tokens,     \* lazy consumer: per Record yielded, its line index, text and results
    row,        \* parse: the pairs collected for the current line
    out,        \* parse: the rows pushed so far
    result      \* what validate / parse returned

vars == <<input, caller, pc, data, record, tokens, row, out, result>>

NoRecord == [fields |-> [rest |-> <<>>, finished |-> TRUE], current_line |-> 0, current_pointer |-> 0]
Pending == [ok |-> FALSE, err |-> "pending"]

Init ==
    /\ input \in Inputs
    /\ caller \in {"tokenize", "validate", "parse"}
    /\ pc = "lines"
    /\ data = tokenize(input)
    /\ record = NoRecord
    /\ tokens = <<>>
    /\ row = <<>>
    /\ out = <<>>
    /\ result = Pending

\* ---------------------------------------------- a lazy consumer of tokenize
\* for line in tokenize(input) { for field in line { ... } }: every result is
\* looked at and the loops go on whatever it is.

TokenizeNextLine ==
    /\ caller = "tokenize" /\ pc = "lines"
    /\ Data_next(data).some
    /\ data' = Data_next(data).data
    /\ record' = Data_next(data).record
    /\ tokens' = Append(tokens, [line |-> Data_next(data).record.current_line,
                                 text |-> Data_next(data).record.fields.rest,
                                 results |-> <<>>])
    /\ pc' = "fields"
    /\ UNCHANGED <<input, caller, row, out, result>>

TokenizeField ==
    /\ caller = "tokenize" /\ pc = "fields"
    /\ Record_next(record).some
    /\ record' = Record_next(record).record
    /\ tokens' = [tokens EXCEPT ![Len(tokens)].results = Append(@, Record_next(record).item)]
    /\ UNCHANGED <<input, caller, pc, data, row, out, result>>

TokenizeLineEnd ==
    /\ caller = "tokenize" /\ pc = "fields"
    /\ ~Record_next(record).some
    /\ pc' = "lines"
    /\ UNCHANGED <<input, caller, data, record, tokens, row, out, result>>

TokenizeEnd ==
    /\ caller = "tokenize" /\ pc = "lines"
    /\ ~Data_next(data).some
    /\ pc' = "done"
    /\ UNCHANGED <<input, caller, data, record, tokens, row, out, result>>

\* ---------------------------------------------------------------- validate

ValidateNextLine ==
    /\ caller = "validate" /\ pc = "lines"
    /\ Data_next(data).some
    /\ data' = Data_next(data).data
    /\ record' = Data_next(data).record
    /\ pc' = "fields"
    /\ UNCHANGED <<input, caller, tokens, row, out, result>>

\* The loop body with the result looked at and dropped: `let _ = field;`.
ValidateField_KeepGoing ==
    /\ caller = "validate" /\ pc = "fields"
    /\ Record_next(record).some
    /\ record' = Record_next(record).record
    /\ UNCHANGED <<input, caller, pc, data, tokens, row, out, result>>

\* field?;
ValidateField ==
    /\ caller = "validate" /\ pc = "fields"
    /\ Record_next(record).some
    /\ record' = Record_next(record).record
    /\ IF Record_next(record).item.ok
       THEN UNCHANGED <<pc, result>>
       ELSE /\ result' = Record_next(record).item
            /\ pc' = "done"
    /\ UNCHANGED <<input, caller, data, tokens, row, out>>

ValidateLineEnd ==
    /\ caller = "validate" /\ pc = "fields"
    /\ ~Record_next(record).some
    /\ pc' = "lines"
    /\ UNCHANGED <<input, caller, data, record, tokens, row, out, result>>

\* Ok(())
ValidateReturn ==
    /\ caller = "validate" /\ pc = "lines"
    /\ ~Data_next(data).some
    /\ result' = Ok(<<>>)
    /\ pc' = "done"
    /\ UNCHANGED <<input, caller, data, record, tokens, row, out>>

\* ------------------------------------------------------------------- parse

ParseNextLine ==
    /\ caller = "parse" /\ pc = "lines"
    /\ Data_next(data).some
    /\ data' = Data_next(data).data
    /\ record' = Data_next(data).record
    /\ row' = <<>>
    /\ pc' = "fields"
    /\ UNCHANGED <<input, caller, tokens, out, result>>

\* line.map(pair_from).collect::<Result<Vec<_>, _>>() takes one result; the
\* first Err ends the collection and `parsed_line?` returns it, dropping out.
ParseField ==
    /\ caller = "parse" /\ pc = "fields"
    /\ Record_next(record).some
    /\ record' = Record_next(record).record
    /\ IF Record_next(record).item.ok
       THEN /\ row' = Append(row, pair_of(Record_next(record).item.val))
            /\ UNCHANGED <<pc, out, result>>
       ELSE /\ result' = Record_next(record).item
            /\ row' = <<>>
            /\ out' = <<>>
            /\ pc' = "done"
    /\ UNCHANGED <<input, caller, data, tokens>>

\* out.push(parsed_line?)
ParseLineEnd ==
    /\ caller = "parse" /\ pc = "fields"
    /\ ~Record_next(record).some
    /\ out' = Append(out, row)
    /\ row' = <<>>
    /\ pc' = "lines"
    /\ UNCHANGED <<input, caller, data, record, tokens, result>>

\* Ok(out)
ParseReturn ==
    /\ caller = "parse" /\ pc = "lines"
    /\ ~Data_next(data).some
    /\ result' = Ok(out)
    /\ pc' = "done"
    /\ UNCHANGED <<input, caller, data, record, tokens, row, out>>

Next ==
    \/ TokenizeNextLine
    \/ TokenizeField
    \/ TokenizeLineEnd
    \/ TokenizeEnd
    \/ ValidateNextLine
    \/ ValidateField
    \/ ValidateLineEnd
    \/ ValidateReturn
    \/ ParseNextLine
    \/ ParseField
    \/ ParseLineEnd
    \/ ParseReturn

Spec == Init /\ [][Next]_vars

\* ------------------------------------------- the input, read positionally
\* What a buffer and a line hold, stated over byte positions and independent
\* of the iterators above.

NlPositions(in) == {i \in 1..Len(in) : in[i] = NEWLINE}

\* One line per NEWLINE, and one more for an unterminated rest.
NumLines(in) ==
    Cardinality(NlPositions(in))
        + (IF in # <<>> /\ in[Len(in)] # NEWLINE THEN 1 ELSE 0)

\* The position of the k-th NEWLINE; 0 for k = 0 and Len(in) + 1 past the last.
NthNl(in, k) ==
    IF k = 0 THEN 0
    ELSE IF k > Cardinality(NlPositions(in)) THEN Len(in) + 1
    ELSE CHOOSE p \in NlPositions(in) : Cardinality({q \in NlPositions(in) : q < p}) = k - 1

\* The content of the k-th line (k from 1): the bytes between the NEWLINEs
\* around it, less a CR right before the terminating NEWLINE.
LineText(in, k) ==
    LET from == NthNl(in, k - 1) + 1
        nl == NthNl(in, k)
        to == IF nl <= Len(in) /\ nl - 1 >= from /\ in[nl - 1] = CR THEN nl - 2 ELSE nl - 1
    IN  SubSeq(in, from, to)

TabPositions(t) == {i \in 1..Len(t) : t[i] = TAB}

\* A line of n TABs holds n + 1 tab-delimited substrings.
NumFields(t) == Cardinality(TabPositions(t)) + 1

NthTab(t, n) ==
    IF n = 0 THEN 0
    ELSE IF n > Cardinality(TabPositions(t)) THEN Len(t) + 1
    ELSE CHOOSE p \in TabPositions(t) : Cardinality({q \in TabPositions(t) : q < p}) = n - 1

\* 0-based byte offsets [FieldStart, FieldEnd) of the i-th substring (i from 1).
FieldStart(t, i) == NthTab(t, i - 1)
FieldEnd(t, i) == NthTab(t, i) - 1
FieldText(t, i) == SubSeq(t, FieldStart(t, i) + 1, FieldEnd(t, i))

HasSplitter(sub) == \E i \in 1..Len(sub) : sub[i] = SPLITTER
\* Where the first separator of sub is (sub has one).
SplitAt(sub) == CHOOSE c \in 1..Len(sub) : sub[c] = SPLITTER /\ \A d \in 1..(c - 1) : sub[d] # SPLITTER
LabelPart(sub) == SubSeq(sub, 1, SplitAt(sub) - 1)
ValuePart(sub) == SubSeq(sub, SplitAt(sub) + 1, Len(sub))

AllLabelBytes(l) == \A i \in 1..Len(l) : is_label_byte(l[i])
AllFieldBytes(v) == \A i \in 1..Len(v) : is_field_byte(v[i])

\* label = 1*lbyte
GrammarLabel(l) == l # <<>> /\ AllLabelBytes(l)

\* The results logged for the records of the lazy consumer.
Logged == UNION {{<<k, j>> : j \in 1..Len(tokens[k].results)} : k \in 1..Len(tokens)}
ResultAt(kj) == tokens[kj[1]].results[kj[2]]
SubstringAt(kj) == FieldText(tokens[kj[1]].text, kj[2])

\* ------------------------------------------------------------------ claims

\* C7: tokenize yields one Record per line: lines end at NEWLINE, a CR right
\* before that NEWLINE is no line content, an unterminated last line is yielded,
\* a final NEWLINE adds no empty record, and the k-th Record (from 0) carries
\* line index k.
C7_OneRecordPerLine ==
    caller = "tokenize" =>
        /\ \A k \in 1..Len(tokens) :
              /\ tokens[k].line = k - 1
              /\ tokens[k].text = LineText(input, k)
        /\ Len(tokens) <= NumLines(input)
        /\ pc = "done" => Len(tokens) = NumLines(input)

\* A buffer of two lines, the first ended by CR NEWLINE and the last
\* unterminated, has been read to its end.
C7_Witness ==
    /\ caller = "tokenize" /\ pc = "done"
    /\ Len(tokens) = 2
    /\ \E i \in 2..Len(input) : input[i] = NEWLINE /\ input[i - 1] = CR
    /\ input[Len(input)] # NEWLINE

\* C5: driven lazily, an Err never ends the iteration: each Record yields one
\* result per tab-delimited substring of its line, the lines after a line with
\* errors are yielded too, and the Ok results are, in order, the label and
\* field of the substrings they came from.
C5_LazyNeverAborts ==
    caller = "tokenize" =>
        /\ \A k \in 1..Len(tokens) :
              /\ Len(tokens[k].results) <= NumFields(tokens[k].text)
              /\ (k < Len(tokens) \/ pc # "fields")
                    => Len(tokens[k].results) = NumFields(tokens[k].text)
        /\ pc = "done" => Len(tokens) = NumLines(input)
        /\ \A kj \in Logged :
              ResultAt(kj).ok =>
                  /\ HasSplitter(SubstringAt(kj))
                  /\ ResultAt(kj).val.label = LabelPart(SubstringAt(kj))
                  /\ ResultAt(kj).val.field = ValuePart(SubstringAt(kj))
                  /\ ResultAt(kj).val.line = kj[1] - 1

\* A line whose first substring failed has gone on to yield an Ok pair, and a
\* later line has been yielded after it.
C5_Witness ==
    /\ caller = "tokenize" /\ pc = "done"
    /\ Len(tokens) = 2
    /\ Len(tokens[1].results) = 2
    /\ ~tokens[1].results[1].ok
    /\ tokens[1].results[2].ok
    /\ tokens[2].results # <<>>

\* C8: a successful pair has end - start equal to the byte length of its
\* substring; when substrings i and i+1 of a line both succeed, start of i+1 is
\* end of i plus 1; and the first field of every line starts at 0.
C8_PositionInvariant ==
    caller = "tokenize" =>
        \A kj \in Logged :
            ResultAt(kj).ok =>
                /\ ResultAt(kj).val.end - ResultAt(kj).val.start = Len(SubstringAt(kj))
                /\ kj[2] = 1 => ResultAt(kj).val.start = 0
                /\ (<<kj[1], kj[2] + 1>> \in Logged /\ ResultAt(<<kj[1], kj[2] + 1>>).ok)
                      => ResultAt(<<kj[1], kj[2] + 1>>).val.start = ResultAt(kj).val.end + 1

\* Two adjacent substrings of a line succeeded, the first of them not empty
\* before its separator.
C8_Witness ==
    /\ caller = "tokenize"
    /\ \E k \in 1..Len(tokens) :
          /\ Len(tokens[k].results) = 2
          /\ tokens[k].results[1].ok
          /\ tokens[k].results[2].ok
          /\ tokens[k].results[1].val.label # <<>>

\* C2: every result yielded for the i-th substring of a line is positioned at
\* that substring's byte offset in the line, also after an invalid field: the
\* cursor moves to the field's end + 1 after every field.
C2_CursorAdvancesAlways ==
    caller = "tokenize" =>
        /\ \A kj \in Logged :
              LET t == tokens[kj[1]].text
                  r == ResultAt(kj)
              IN  IF r.ok
                  THEN r.val.start = FieldStart(t, kj[2]) /\ r.val.end = FieldEnd(t, kj[2])
                  ELSE CASE r.err.kind = "InvalidPair" ->
                              r.err.start = FieldStart(t, kj[2]) /\ r.err.end = FieldEnd(t, kj[2])
                         [] r.err.kind = "InvalidLabel" -> r.err.start = FieldStart(t, kj[2])
                         [] r.err.kind = "InvalidField" -> r.err.end = FieldEnd(t, kj[2])
        /\ (pc = "fields" /\ Len(tokens[Len(tokens)].results) > 0)
              => record.current_pointer
                    = FieldEnd(tokens[Len(tokens)].text, Len(tokens[Len(tokens)].results)) + 1

\* C3: a substring with a separator and nothing before it is rejected with
\* InvalidLabel.
C3_EmptyLabelRejected ==
    caller = "tokenize" =>
        \A kj \in Logged :
            (HasSplitter(SubstringAt(kj)) /\ LabelPart(SubstringAt(kj)) = <<>>)
                => (~ResultAt(kj).ok /\ ResultAt(kj).err.kind = "InvalidLabel")

\* C4: the Record of an empty line yields nothing, and an empty line does not
\* make validate or parse fail.
C4_EmptyLineYieldsNothing ==
    /\ caller = "tokenize" =>
          \A k \in 1..Len(tokens) : tokens[k].text = <<>> => tokens[k].results = <<>>
    /\ (caller \in {"validate", "parse"} /\ pc = "done" /\ ~result.ok)
          => LineText(input, result.err.line + 1) # <<>>

\* C9: a substring with a separator whose label and value are both invalid is
\* reported as InvalidLabel, never InvalidField; InvalidField is reported only
\* for a label that is valid (label = 1*lbyte).
C9_LabelFirst ==
    caller = "tokenize" =>
        \A kj \in Logged :
            HasSplitter(SubstringAt(kj)) =>
                /\ (~GrammarLabel(LabelPart(SubstringAt(kj)))
                        /\ ~AllFieldBytes(ValuePart(SubstringAt(kj))))
                      => (~ResultAt(kj).ok /\ ResultAt(kj).err.kind = "InvalidLabel")
                /\ (~ResultAt(kj).ok /\ ResultAt(kj).err.kind = "InvalidField")
                      => GrammarLabel(LabelPart(SubstringAt(kj)))

\* Everything a Record yields when driven to its end, whatever the results.
RECURSIVE DrainRecord(_)
DrainRecord(r) ==
    IF ~Record_next(r).some THEN <<>>
    ELSE <<Record_next(r).item>> \o DrainRecord(Record_next(r).record)

\* The results of every Record of a Data, line by line.
RECURSIVE DrainData(_)
DrainData(d) ==
    IF ~Data_next(d).some THEN <<>>
    ELSE <<DrainRecord(Data_next(d).record)>> \o DrainData(Data_next(d).data)

\* The field slots <<line, field>> (both from 1) of a drained Data that failed.
Failing(lines) ==
    UNION {{<<k, j>> : j \in {i \in 1..Len(lines[k]) : ~lines[k][i].ok}} : k \in 1..Len(lines)}

Before(a, b) == a[1] < b[1] \/ (a[1] = b[1] /\ a[2] <= b[2])
FirstOf(slots) == CHOOSE a \in slots : \A b \in slots : Before(a, b)

\* C1: validate returns Ok(()) iff no field slot of any line fails; otherwise
\* validate and parse return the error of the first failing slot, lines in input
\* order and fields left to right, and parse returns no table; on success parse
\* returns one row per line holding the line's pairs in order.
C1_FirstErrorOrAll ==
    (caller \in {"validate", "parse"} /\ pc = "done") =>
        LET lines == DrainData(tokenize(input))
        IN  IF Failing(lines) = {}
            THEN /\ result.ok
                 /\ caller = "validate" => result.val = <<>>
                 /\ caller = "parse" =>
                       /\ Len(result.val) = Len(lines)
                       /\ \A k \in 1..Len(lines) :
                             /\ Len(result.val[k]) = Len(lines[k])
                             /\ \A j \in 1..Len(lines[k]) :
                                   result.val[k][j] = pair_of(lines[k][j].val)
            ELSE /\ result = lines[FirstOf(Failing(lines))[1]][FirstOf(Failing(lines))[2]]
                 /\ DOMAIN result = {"ok", "err"}
                 /\ out = <<>>

\* validate returned the error of a slot that came after an Ok slot and before
\* another failing slot.
C1_Witness ==
    /\ caller = "validate" /\ pc = "done" /\ ~result.ok
    /\ LET lines == DrainData(tokenize(input))
       IN  /\ Cardinality(Failing(lines)) >= 2
           /\ FirstOf(Failing(lines)) # <<1, 1>>

\* The failing field slots, read from the bytes: no separator, a byte outside
\* the label alphabet before it, or a byte outside the field alphabet after it.
SlotFails(sub) ==
    \/ ~HasSplitter(sub)
    \/ ~AllLabelBytes(LabelPart(sub))
    \/ ~AllFieldBytes(ValuePart(sub))

FailingSlots(in) ==
    UNION {{<<k, j>> : j \in {i \in 1..NumFields(LineText(in, k)) :
                                 SlotFails(FieldText(LineText(in, k), i))}}
           : k \in 1..NumLines(in)}

\* C6: the error validate returns is that of the first failing field of the
\* buffer: line is the 0-based index of its line and text is the bytes of that
\* line at [start, end): the whole substring for InvalidPair, the label for
\* InvalidLabel, the value (past label and separator) for InvalidField.
C6_ErrorSpan ==
    (caller = "validate" /\ pc = "done" /\ ~result.ok) =>
        /\ FailingSlots(input) # {}
        /\ LET slot == FirstOf(FailingSlots(input))
               t == LineText(input, slot[1])
               sub == FieldText(t, slot[2])
               fs == FieldStart(t, slot[2])
               e == result.err
           IN  /\ e.line = slot[1] - 1
               /\ e.txt = SubSeq(t, e.start + 1, e.end)
               /\ e.start <= e.end /\ e.end <= Len(t)
               /\ CASE e.kind = "InvalidPair" ->
                         /\ ~HasSplitter(sub)
                         /\ e.start = fs /\ e.end = FieldEnd(t, slot[2]) /\ e.txt = sub
                    [] e.kind = "InvalidLabel" ->
                         /\ HasSplitter(sub)
                         /\ e.start = fs /\ e.end = fs + Len(LabelPart(sub))
                         /\ e.txt = LabelPart(sub)
                    [] e.kind = "InvalidField" ->
                         /\ HasSplitter(sub)
                         /\ e.start = fs + Len(LabelPart(sub)) + 1
                         /\ e.end = FieldEnd(t, slot[2])
                         /\ e.txt = ValuePart(sub)

\* validate returned an InvalidField for a field that is not the first of its
\* line.
C6_Witness ==
    /\ caller = "validate" /\ pc = "done" /\ ~result.ok
    /\ result.err.kind = "InvalidField"
    /\ result.err.start >= 2

\* The pairs some text renders: every way to read it as label ":" field with
\* the label in the label alphabet and the field free of TAB, NEWLINE, CR, NUL.
RenderedBy(text) ==
    {p \in {[label |-> SubSeq(text, 1, c - 1), field |-> SubSeq(text, c + 1, Len(text))]
              : c \in 1..Len(text)} :
        /\ AllLabelBytes(p.label)
        /\ \A i \in 1..Len(p.field) : p.field[i] \notin {TAB, NEWLINE, CR, 0}
        /\ fmt(p) = text}

\* C10: a Pair whose label is in the label alphabet and whose field has no TAB,
\* NEWLINE, CR or NUL, rendered as label ":" field and parsed as a line, comes
\* back as one record of one pair equal to it.
C10_RoundTrip ==
    (caller = "parse" /\ pc = "done") =>
        \A p \in RenderedBy(input) : result = Ok(<< <<p>> >>)

\* A rendered pair whose field holds a further separator has been parsed.
C10_Witness ==
    /\ caller = "parse" /\ pc = "done"
    /\ \E p \in RenderedBy(input) :
          /\ p.label # <<>>
          /\ \E i \in 1..Len(p.field) : p.field[i] = SPLITTER

====
